---- MODULE Spec2Model ----
(***************************************************************************)
(* Model of streamlit_app.py: the field normalizers, the document-type     *)
(* classifier, the three row pipelines (SAESA, INNOVA, PARQUE ARAUCO), the  *)
(* per-entity assembler and the three feed sections of the Streamlit       *)
(* script.                                                                 *)
(*                                                                         *)
(* A Python string is a sequence of one-character strings.  A spreadsheet  *)
(* cell is a record [t, s, n]: t = "nan" (empty cell, NaN/NaT), "str" (text *)
(* s), "float" (float64 holding the whole number n) or "int" (integer n).   *)
(* A pandas Series is a sequence of cells; a DataFrame is a record         *)
(* [index, columns, data]: the row labels, the column labels in order and   *)
(* one Series per column label.                                            *)
(***************************************************************************)
EXTENDS Integers, Sequences, FiniteSets, TLC

VARIABLES
    archivo,    \* feed -> the uploaded file of the section (st.file_uploader)
    modo,       \* feed -> the output mode chosen in the section (st.radio)
    pc,         \* the section the script run is about to execute
    resultado,  \* feed -> what the section showed (download or st.error)
    entrada,    \* argument of the field normalizer under test
    salida      \* the successive results of applying the normalizer

vars == <<archivo, modo, pc, resultado, entrada, salida>>

(***************************************************************************)
(* Python strings                                                          *)
(***************************************************************************)

\* Characters str.strip() removes (the whitespace of the model's alphabets).
Whitespace == {" ", "\t", "\n"}

Digits == <<"0", "1", "2", "3", "4", "5", "6", "7", "8", "9">>

IsDigit(c) == \E d \in 1..10 : Digits[d] = c

DigitVal(c) == (CHOOSE d \in 1..10 : Digits[d] = c) - 1

\* str.upper() on one character.
UpperChar(c) ==
    CASE c = "a" -> "A" [] c = "d" -> "D" [] c = "k" -> "K" [] c = "n" -> "N"
      [] c = "p" -> "P" [] c = "q" -> "Q" [] c = "r" -> "R" [] c = "s" -> "S"
      [] c = "u" -> "U" [] c = "e" -> "E" [] c = "x" -> "X"
      [] OTHER -> c

\* str.lower() on one character.
LowerChar(c) ==
    CASE c = "A" -> "a" [] c = "D" -> "d" [] c = "K" -> "k" [] c = "N" -> "n"
      [] c = "P" -> "p" [] c = "Q" -> "q" [] c = "R" -> "r" [] c = "S" -> "s"
      [] c = "U" -> "u" [] c = "E" -> "e" [] c = "X" -> "x"
      [] OTHER -> c

Upper(s) == [i \in 1..Len(s) |-> UpperChar(s[i])]

Lower(s) == [i \in 1..Len(s) |-> LowerChar(s[i])]

\* s.rstrip(chars): drop the longest suffix made of characters of chars.
RECURSIVE RStripChars(_, _)
RStripChars(s, chars) ==
    IF s # <<>> /\ s[Len(s)] \in chars
    THEN RStripChars(SubSeq(s, 1, Len(s) - 1), chars)
    ELSE s

\* s.lstrip(chars)
RECURSIVE LStripChars(_, _)
LStripChars(s, chars) ==
    IF s # <<>> /\ s[1] \in chars
    THEN LStripChars(Tail(s), chars)
    ELSE s

\* s.strip(): leading and trailing whitespace of any kind.
Strip(s) == LStripChars(RStripChars(s, Whitespace), Whitespace)

\* s.replace(c, ""): every occurrence of the character removed.
RemoveChar(s, c) == SelectSeq(s, LAMBDA ch : ch # c)

\* s.replace(c, d): every occurrence of the character replaced.
ReplaceChar(s, c, d) == [i \in 1..Len(s) |-> IF s[i] = c THEN d ELSE s[i]]

\* c in s
Contains(s, c) == \E i \in 1..Len(s) : s[i] = c

EndsWith(s, suf) ==
    /\ Len(s) >= Len(suf)
    /\ SubSeq(s, Len(s) - Len(suf) + 1, Len(s)) = suf

\* re.sub(r"\.0$", "", s): "$" matches at the end of the string and also
\* just before a newline that ends the string.
SubDotZeroEnd(s) ==
    IF EndsWith(s, <<".", "0">>)
    THEN SubSeq(s, 1, Len(s) - 2)
    ELSE IF EndsWith(s, <<".", "0", "\n">>)
         THEN SubSeq(s, 1, Len(s) - 3) \o <<"\n">>
         ELSE s

\* s.split(".")[0]: the text before the first period.
RECURSIVE SplitDotFirst(_)
SplitDotFirst(s) ==
    IF s = <<>> \/ s[1] = "." THEN <<>>
    ELSE <<s[1]>> \o SplitDotFirst(Tail(s))

\* Decimal digits of a natural number.
RECURSIVE NatToStr(_)
NatToStr(n) ==
    IF n < 10 THEN <<Digits[n + 1]>>
    ELSE NatToStr(n \div 10) \o <<Digits[(n % 10) + 1]>>

\* Value of a string of decimal digits.
RECURSIVE StrToNat(_)
StrToNat(s) ==
    IF s = <<>> THEN 0
    ELSE 10 * StrToNat(SubSeq(s, 1, Len(s) - 1)) + DigitVal(s[Len(s)])

AllDigits(s) == \A i \in 1..Len(s) : IsDigit(s[i])

(***************************************************************************)
(* Cells and Series                                                        *)
(***************************************************************************)

NaN == [t |-> "nan", s |-> <<>>, n |-> 0]

Txt(s) == [t |-> "str", s |-> s, n |-> 0]

Flotante(n) == [t |-> "float", s |-> <<>>, n |-> n]

Entero(n) == [t |-> "int", s |-> <<>>, n |-> n]

\* pd.isna(valor) / Series.isna()
IsNa(v) == v.t = "nan"

\* str(valor), Series.astype(str) on one element: NaN prints as "nan", a
\* float holding a whole number prints with the ".0" suffix.
AsStr(v) ==
    CASE v.t = "nan" -> <<"n", "a", "n">>
      [] v.t = "str" -> v.s
      [] v.t = "float" ->
            (IF v.n < 0 THEN <<"-">> \o NatToStr(-v.n) ELSE NatToStr(v.n))
                \o <<".", "0">>
      [] OTHER ->
            IF v.n < 0 THEN <<"-">> \o NatToStr(-v.n) ELSE NatToStr(v.n)

\* Apply an element function to a Series.
SeriesMap(Op(_), ser) == [i \in 1..Len(ser) |-> Op(ser[i])]

(***************************************************************************)
(* Field normalizers                                                       *)
(***************************************************************************)

\* The element function of limpiar_folio_series on the text of a cell:
\* .str.rstrip("."), .str.replace(r"\.0$", "", regex=True), .str.strip().
limpiar_folio(x) == Strip(SubDotZeroEnd(RStripChars(x, {"."})))

limpiar_folio_series(ser) ==
    SeriesMap(LAMBDA v : Txt(limpiar_folio(AsStr(v))), ser)

normalizar_rut(valor) ==
    LET s0 == IF IsNa(valor) THEN <<>> ELSE AsStr(valor)
        s1 == Strip(s0)
        s2 == RemoveChar(s1, ".")
        s3 == RemoveChar(s2, " ")
    IN  Upper(s3)

\* normalizar_monto on one element: thousands periods removed, decimal comma
\* turned into a period, surrounding whitespace stripped.
normalizar_monto_elem(v) ==
    Txt(Strip(ReplaceChar(RemoveChar(AsStr(v), "."), ",", ".")))

normalizar_monto(ser) == SeriesMap(normalizar_monto_elem, ser)

\* Whether text is a decimal number: digits with at most one period and at
\* least one digit.
EsDecimal(s) ==
    /\ Len(RemoveChar(s, ".")) >= Len(s) - 1
    /\ AllDigits(RemoveChar(s, "."))
    /\ RemoveChar(s, ".") # <<>>

\* The number written by text without surrounding whitespace, or NaN.
ParseNumero(s) ==
    IF s # <<>> /\ s[1] \in {"-", "+"}
    THEN IF EsDecimal(Tail(s))
         THEN Flotante(IF s[1] = "-" THEN -StrToNat(SplitDotFirst(Tail(s)))
                       ELSE StrToNat(SplitDotFirst(Tail(s))))
         ELSE NaN
    ELSE IF EsDecimal(s) THEN Flotante(StrToNat(SplitDotFirst(s))) ELSE NaN

\* pd.to_numeric(ser, errors="coerce") on one element: the parsed number, or
\* NaN for text that is no number.  The cell keeps the whole part of the
\* number (the fraction is dropped later by .astype(int)).
to_numeric_coerce(v) == ParseNumero(Strip(AsStr(v)))

\* .fillna(0).abs().astype(int) on one element.
fillna0_abs_int(v) ==
    IF IsNa(v) THEN Entero(0)
    ELSE Entero(IF v.n < 0 THEN -v.n ELSE v.n)

\* Whether text is a calendar date written YYYY-MM-DD.
EsFechaIso(s) ==
    /\ Len(s) = 10
    /\ s[5] = "-" /\ s[8] = "-"
    /\ \A i \in {1, 2, 3, 4, 6, 7, 9, 10} : IsDigit(s[i])
    /\ StrToNat(SubSeq(s, 6, 7)) \in 1..12
    /\ StrToNat(SubSeq(s, 9, 10)) \in 1..28

\* pd.to_datetime(s, errors="coerce").dt.strftime("%d-%m-%Y") on one element,
\* for cells that hold a date as YYYY-MM-DD text or no date at all (NaT).
formatear_fecha_elem(v) ==
    IF v.t = "str" /\ EsFechaIso(v.s)
    THEN Txt(SubSeq(v.s, 9, 10) \o <<"-">> \o SubSeq(v.s, 6, 7) \o <<"-">>
                \o SubSeq(v.s, 1, 4))
    ELSE NaN

formatear_fecha_series(ser) == SeriesMap(formatear_fecha_elem, ser)

(***************************************************************************)
(* Document-type classifier                                                *)
(***************************************************************************)

RutsEspeciales == {<<"6", "0", "5", "0", "3", "0", "0", "0", "-", "9">>, <<"7", "6", "5", "1",
        "6", "9", "9", "9", "-", "2">>, <<"9", "2", "9", "7", "6", "1", "2", "-", "2">>}

\* transformar_tipo without the special issuers of "ZV".
transformar_tipo_sin_ruts(tipo, rut) ==
    IF tipo = <<"F", "Ñ">> THEN <<"3", "3">>
    ELSE IF tipo = <<"F", "O">> THEN <<"3", "4">>
    ELSE IF tipo = <<"Z", "V">> THEN <<"3", "3">>
    ELSE tipo

transformar_tipo(tipo, rut) ==
    IF tipo = <<"F", "Ñ">> THEN <<"3", "3">>
    ELSE IF tipo = <<"F", "O">> THEN <<"3", "4">>
    ELSE IF tipo = <<"Z", "V">>
         THEN IF rut \in RutsEspeciales THEN <<"3", "4">> ELSE <<"3", "3">>
         ELSE tipo

(***************************************************************************)
(* Configuration                                                           *)
(***************************************************************************)

REQ_COLS_BASE ==
    { "Acreedor", "Clase de documento", "Referencia",
      "Importe en moneda local", "Vencimiento neto", "Sociedad" }

SOCIEDADES_PARAUCO ==
    { <<"A", "r", "a", "u", "c", "o", " ", "C", "e", "n", "t", "r", "o", "s", " ", "C", "o",
            "m", "e", "r", "c", "i", "a", "l", "e", "s", " ", "R", "e", "g", "i", "o", "n",
                    "a", "l", "e", "s", " ", "S", "P", "A">>,
      <<"A", "r", "a", "u", "c", "o", " ", "C", "h", "i", "l", "l", "á", "n", " ", "S", "P", "A">>,
      <<"A", "r", "a", "u", "c", "o", " ", "M", "a", "l", "l", "s", " ", "C", "h", "i", "l",
              "e", " ", "S", ".", "A", ".">>,
      <<"B", "u", "l", "e", "v", "a", "r", " ", "R", "e", "n", "t", "a", "s", " ", "I", "n",
              "m", "o", "b", "i", "l", "i", "a", "r", "i", "a", "s", " ", "S", ".", "A", ".">>,
      <<"C", "e", "n", "t", "r", "o", "s", " ", "C", "o", "m", "e", "r", "c", "i", "a", "l",
              "e", "s", " ", "V", "e", "c", "i", "n", "a", "l", "e", "s", " ", "A", "r", "a",
                      "u", "c", "o", " ", "E", "x", "p", "r", "e", "s", "s", " ", "S", ".",
                              "A", ".">>,
      <<"D", "e", "s", "a", "r", "r", "o", "l", "l", "o", "s", " ", "I", "n", "m", "o", "b",
              "i", "l", "i", "a", "r", "i", "o", "s", " ", "S", "a", "n", " ", "A", "n", "t",
                      "o", "n", "i", "o", " ", "S", ".", "A", ".">>,
      <<"I", "n", "m", "o", "b", ".", " ", "P", "a", "s", "e", "o", " ", "E", "s", "t", "a",
              "c", "i", "o", "n">>,
      <<"I", "n", "v", "e", "r", "s", "i", "o", "n", "e", "s", " ", "A", "r", "a", "u", "c",
              "o", " ", "S", "p", "a", ".">>,
      <<"P", "a", "r", "q", "u", "e", " ", "A", "n", "g", "a", "m", "o", "s", " ", "S", "P", "A">>,
      <<"P", "a", "r", "q", "u", "e", " ", "A", "r", "a", "u", "c", "o", " ", "S", ".", "A", ".">>,
      <<"P", "l", "a", "z", "a", " ", "E", "s", "t", "a", "c", "i", "ó", "n", " ", "S", ".",
              "A", ".">>,
      <<"T", "o", "d", "o", " ", "A", "r", "a", "u", "c", "o", " ", "S", ".", "A", ".">> }

SAESA_SOCIEDAD_A_RUT ==
    (<<"D">> :> <<"7", "6", "5", "1", "9", "7", "4", "7", "-", "3">>) @@ (<<"E">> :> <<"8",
            "8", "2", "7", "2", "6", "0", "0", "-", "2">>) @@ (<<"F">> :> <<"7", "6", "0", "7",
                    "3", "1", "6", "4", "-", "1">>)
    @@ (<<"G">> :> <<"7", "7", "7", "0", "8", "6", "5", "4", "-", "5">>) @@ (<<"L">> :> <<"9",
            "6", "5", "3", "1", "5", "0", "0", "-", "4">>) @@ (<<"S">> :> <<"7", "6", "0", "7",
                    "3", "1", "6", "2", "-", "5">>)
    @@ (<<"T">> :> <<"7", "7", "3", "1", "2", "2", "0", "1", "-", "6">>)

INNOVA_SOCIEDAD_A_RUT == (<<"P">> :> <<"7", "7", "2", "2", "7", "5", "6", "5", "-", "K">>)

(***************************************************************************)
(* DataFrames and exceptions                                               *)
(***************************************************************************)

\* A call either returns a value or raises an exception.
NoExc == [clase |-> "", mensaje |-> ""]

Return(v) == [ok |-> TRUE, exc |-> NoExc, valor |-> v]

Raise(clase, mensaje) ==
    [ok |-> FALSE, exc |-> [clase |-> clase, mensaje |-> mensaje], valor |-> <<>>]

\* Elements of a sequence at the positions where mask is TRUE.
RECURSIVE Keep(_, _)
Keep(ser, mask) ==
    IF ser = <<>> THEN <<>>
    ELSE (IF Head(mask) THEN <<Head(ser)>> ELSE <<>>) \o Keep(Tail(ser), Tail(mask))

\* df[mask] / df.loc[mask]: the rows where mask holds, labels kept.
Filtrar(df, mask) ==
    [ index |-> Keep(df.index, mask),
      columns |-> df.columns,
      data |-> [c \in DOMAIN df.data |-> Keep(df.data[c], mask)] ]

\* df.empty
Empty(df) == Len(df.index) = 0 \/ Len(df.columns) = 0

\* df[c] = ser on an existing or a new column.
SetCol(df, c, ser) ==
    [ index |-> df.index,
      columns |-> IF c \in DOMAIN df.data THEN df.columns ELSE Append(df.columns, c),
      data |-> (c :> ser) @@ df.data ]

\* df.rename(columns=m)
Rename(df, m) ==
    LET nuevo(k) == IF k \in DOMAIN m THEN m[k] ELSE k
    IN  [ index |-> df.index,
          columns |-> [i \in 1..Len(df.columns) |-> nuevo(df.columns[i])],
          data |-> [c \in {nuevo(k) : k \in DOMAIN df.data} |->
                      df.data[CHOOSE k \in DOMAIN df.data : nuevo(k) = c]] ]

\* df[[c1, ..., cn]]
Select(df, cols) ==
    [ index |-> df.index,
      columns |-> cols,
      data |-> [c \in {cols[i] : i \in 1..Len(cols)} |-> df.data[c]] ]

\* df.iloc[:, k]
ILoc(df, k) == df.data[df.columns[k + 1]]

\* Row i of a frame: its label and its cells by column.
Fila(df, i) == [idx |-> df.index[i], v |-> [c \in DOMAIN df.data |-> df.data[c][i]]]

Filas(df) == {Fila(df, i) : i \in 1..Len(df.index)}

\* Series.astype(str).str.strip().ne("")
NoVacio(ser) == [i \in 1..Len(ser) |-> Strip(AsStr(ser[i])) # <<>>]

MaskAnd(a, b) == [i \in 1..Len(a) |-> a[i] /\ b[i]]

\* pd.read_excel(archivo): first row as header, RangeIndex 0..n-1.
read_excel(arch) ==
    IF ~arch.legible
    THEN Raise("BadZipFile", "File is not a zip file")
    ELSE Return(
           [ index |-> [i \in 1..Len(arch.filas) |-> i - 1],
             columns |-> arch.columnas,
             data |-> [c \in {arch.columnas[j] : j \in 1..Len(arch.columnas)} |->
                         [i \in 1..Len(arch.filas) |->
                             arch.filas[i][CHOOSE j \in 1..Len(arch.columnas) :
                                              arch.columnas[j] = c]]] ])

\* validar_columnas: TRUE when nothing is missing (otherwise it raises).
validar_columnas(df, requeridas) ==
    \A c \in requeridas : c \in DOMAIN df.data

(***************************************************************************)
(* Named-column pipeline (SAESA, INNOVA)                                   *)
(***************************************************************************)

\* ValueError when the frame is empty, the frame otherwise.
SiNoVacio(df, mensaje) ==
    IF Empty(df) THEN Raise("ValueError", mensaje) ELSE Return(df)

\* mask_ref_valida: the reference is not null, not blank and not "nan".
MaskRefValida(ref) ==
    [i \in 1..Len(ref) |->
        /\ ~IsNa(ref[i])
        /\ Strip(AsStr(ref[i])) # <<>>
        /\ Lower(Strip(AsStr(ref[i]))) # <<"n", "a", "n">>]

\* df.loc[mask_ref_valida]
FiltrarRefValida(df) == Filtrar(df, MaskRefValida(df.data["Referencia"]))

\* df["Referencia"] = df["Referencia"].astype(str)
ReferenciaComoTexto(df) ==
    SetCol(df, "Referencia", SeriesMap(LAMBDA v : Txt(AsStr(v)), df.data["Referencia"]))

\* df[~df["Referencia"].str.contains("-", na=False)]
MaskSinGuion(ref) == [i \in 1..Len(ref) |-> ~Contains(AsStr(ref[i]), "-")]

FiltrarGuion(df) == Filtrar(df, MaskSinGuion(df.data["Referencia"]))

\* df["Referencia"] = limpiar_folio_series(df["Referencia"])
LimpiarReferencia(df) ==
    SetCol(df, "Referencia", limpiar_folio_series(df.data["Referencia"]))

columnas_nuevas ==
    ("Acreedor" :> "Rut emisor") @@ ("Clase de documento" :> "Tipo de Documento")
    @@ ("Referencia" :> "Folio") @@ ("Importe en moneda local" :> "Monto a pagar")
    @@ ("Vencimiento neto" :> "Fecha a pagar")

\* df.apply(lambda row: transformar_tipo(str(row[...]), str(row[...])), axis=1)
AplicarTipo(df) ==
    SetCol(df, "Tipo de Documento",
           [i \in 1..Len(df.index) |->
               Txt(transformar_tipo(AsStr(df.data["Tipo de Documento"][i]),
                                    AsStr(df.data["Rut emisor"][i])))])

\* pd.to_numeric(normalizar_monto(ser), errors="coerce").fillna(0).abs().astype(int)
MontoEntero(ser) ==
    SeriesMap(fillna0_abs_int, SeriesMap(to_numeric_coerce, normalizar_monto(ser)))

AplicarMonto(df) == SetCol(df, "Monto a pagar", MontoEntero(df.data["Monto a pagar"]))

AplicarFecha(df) ==
    SetCol(df, "Fecha a pagar", formatear_fecha_series(df.data["Fecha a pagar"]))

ColumnasBase ==
    <<"Sociedad", "Rut emisor", "Tipo de Documento", "Folio", "Monto a pagar",
      "Fecha a pagar">>

\* Rename, classify, normalize amount and date, keep the six output columns.
Estandarizar(df) ==
    Select(AplicarFecha(AplicarMonto(AplicarTipo(Rename(df, columnas_nuevas)))),
           ColumnasBase)

\* The filter on empty "Rut emisor" / "Folio".
FiltrarCamposVacios(out) ==
    Filtrar(out, MaskAnd(NoVacio(out.data["Rut emisor"]), NoVacio(out.data["Folio"])))

\* From the hyphen checkpoint to the end of the function.
TrasFiltroGuion(df) ==
    IF Empty(df)
    THEN Raise("ValueError", "No hay filas válidas después de filtrar referencias con '-'.")
    ELSE SiNoVacio(FiltrarCamposVacios(Estandarizar(df)),
                   "No se generó salida: quedó vacío tras filtros/limpieza.")

\* The reference checkpoint without its test for an empty frame.
TrasFiltroReferenciaSinControl(df) ==
    TrasFiltroGuion(LimpiarReferencia(FiltrarGuion(ReferenciaComoTexto(df))))

\* From the reference checkpoint to the end of the function.
TrasFiltroReferencia(df) ==
    IF Empty(df)
    THEN Raise("ValueError",
               "No hay filas válidas: todas las filas tienen 'Referencia' vacía o inválida.")
    ELSE TrasFiltroGuion(LimpiarReferencia(FiltrarGuion(ReferenciaComoTexto(df))))

construir_base_saesa_like_sin_mapping(df) ==
    IF ~validar_columnas(df, REQ_COLS_BASE)
    THEN Raise("ValueError", "Faltan columnas requeridas")
    ELSE TrasFiltroReferencia(FiltrarRefValida(df))

\* base["Sociedad"].astype(str).str.strip().str.upper()
LetraSociedad(base) ==
    SetCol(base, "Sociedad",
           SeriesMap(LAMBDA v : Txt(Upper(Strip(AsStr(v)))), base.data["Sociedad"]))

\* The lookup that keeps a letter that is no key instead of giving NaN.
BuscarSociedadSinDescartar(base, tabla) ==
    SetCol(base, "Sociedad",
           SeriesMap(LAMBDA v : IF v.s \in DOMAIN tabla THEN Txt(tabla[v.s]) ELSE v,
                     base.data["Sociedad"]))

\* base["Sociedad"].map(tabla): NaN for a letter that is no key.
BuscarSociedad(base, tabla) ==
    SetCol(base, "Sociedad",
           SeriesMap(LAMBDA v : IF v.s \in DOMAIN tabla THEN Txt(tabla[v.s]) ELSE NaN,
                     base.data["Sociedad"]))

\* base[base["Sociedad"].notna()]
FiltrarSociedad(base) ==
    Filtrar(base, SeriesMap(LAMBDA v : ~IsNa(v), base.data["Sociedad"]))

\* base["Sociedad"].apply(normalizar_rut)
NormalizarSociedad(base) ==
    SetCol(base, "Sociedad",
           SeriesMap(LAMBDA v : Txt(normalizar_rut(v)), base.data["Sociedad"]))

\* The letter -> RUT replacement shared by construir_base_saesa and
\* construir_base_innova.
MapearSociedad(base, tabla) ==
    NormalizarSociedad(FiltrarSociedad(BuscarSociedad(LetraSociedad(base), tabla)))

\* The part of construir_base_saesa / construir_base_innova after the call of
\* construir_base_saesa_like_sin_mapping, whose exception propagates.
TrasBase(r, tabla, mensaje) ==
    IF ~r.ok THEN r ELSE SiNoVacio(MapearSociedad(r.valor, tabla), mensaje)

construir_base_saesa(df) ==
    TrasBase(construir_base_saesa_like_sin_mapping(df), SAESA_SOCIEDAD_A_RUT,
             "SAESA: no quedaron filas válidas luego de aplicar el mapping de sociedades.")

\* df["Referencia"].astype(str).str.split(".").str[0]
TruncarReferencia(df) ==
    SetCol(df, "Referencia",
           SeriesMap(LAMBDA v : Txt(SplitDotFirst(AsStr(v))), df.data["Referencia"]))

construir_base_innova(df) ==
    IF "Referencia" \notin DOMAIN df.data
    THEN Raise("ValueError", "El archivo de Innova debe contener la columna 'Referencia'.")
    ELSE TrasBase(construir_base_saesa_like_sin_mapping(TruncarReferencia(df)),
                  INNOVA_SOCIEDAD_A_RUT,
                  "INNOVA: no quedaron filas válidas (solo se acepta Sociedad='P').")

(***************************************************************************)
(* Positional pipeline (PARQUE ARAUCO)                                     *)
(***************************************************************************)

\* col_L.astype(str).str.strip().isin(SOCIEDADES_PARAUCO)
MaskSociedadParauco(col_L) ==
    [i \in 1..Len(col_L) |-> Strip(AsStr(col_L[i])) \in SOCIEDADES_PARAUCO]

\* The output entity read from the name column L instead of the RUT column K.
sociedad_rut_de_L(df, mask) ==
    SeriesMap(LAMBDA v : Txt(normalizar_rut(v)), Keep(ILoc(df, 11), mask))

\* sociedad_rut = col_K.loc[mask].apply(normalizar_rut)
sociedad_rut(df, mask) ==
    SeriesMap(LAMBDA v : Txt(normalizar_rut(v)), Keep(ILoc(df, 10), mask))

\* pd.DataFrame({...}) over the rows of the mask, then the integer amount.
SalidaParauco(df, mask) ==
    [ index |-> Keep(df.index, mask),
      columns |-> ColumnasBase,
      data |->
         ("Sociedad" :> sociedad_rut(df, mask))
         @@ ("Rut emisor" :>
               SeriesMap(LAMBDA v : Txt(Strip(AsStr(v))), Keep(ILoc(df, 6), mask)))
         @@ ("Tipo de Documento" :> SeriesMap(LAMBDA v : Txt(<<"3", "3">>), Keep(df.index, mask)))
         @@ ("Folio" :> limpiar_folio_series(Keep(ILoc(df, 3), mask)))
         @@ ("Monto a pagar" :> MontoEntero(Keep(ILoc(df, 2), mask)))
         @@ ("Fecha a pagar" :> formatear_fecha_series(Keep(ILoc(df, 4), mask))) ]

\* The filter on empty "Sociedad" / "Rut emisor" / "Folio".
FiltrarCamposVaciosParauco(out) ==
    Filtrar(out, MaskAnd(NoVacio(out.data["Sociedad"]),
                         MaskAnd(NoVacio(out.data["Rut emisor"]),
                                 NoVacio(out.data["Folio"]))))

\* From the allow-list mask to the end of the function.
TrasMascaraParauco(df, mask) ==
    IF \A i \in 1..Len(mask) : ~mask[i]
    THEN Raise("ValueError",
           "No se encontraron filas con sociedades Parauco válidas en la columna L.")
    ELSE SiNoVacio(FiltrarCamposVaciosParauco(SalidaParauco(df, mask)),
                   "Parauco: quedó vacío tras limpieza/filtros.")

construir_base_parauco(df) ==
    IF Len(df.columns) <= 11
    THEN Raise("ValueError",
           "El archivo no tiene suficientes columnas (se espera al menos hasta la columna L).")
    ELSE TrasMascaraParauco(df, MaskSociedadParauco(ILoc(df, 11)))

(***************************************************************************)
(* Output assembler                                                        *)
(***************************************************************************)

ColumnasSalida ==
    <<"Rut emisor", "Tipo de Documento", "Folio", "Monto a pagar", "Fecha a pagar">>

\* The group's rows with the entity column left in.
SubGrupoConSociedad(base, col_sociedad, sociedad) ==
    Filtrar(base, SeriesMap(LAMBDA v : v = sociedad, base.data[col_sociedad]))

\* grupo[[...]] of one group of base.groupby(col_sociedad, dropna=False): the
\* rows whose entity is the group's value, in the order of base, without the
\* entity column.
SubGrupo(base, col_sociedad, sociedad) ==
    Select(Filtrar(base, SeriesMap(LAMBDA v : v = sociedad, base.data[col_sociedad])),
           ColumnasSalida)

\* The distinct entity values of the frame.
ValoresSociedad(base, col_sociedad) ==
    {base.data[col_sociedad][i] : i \in 1..Len(base.index)}

\* The group that ends up under key k: groups are visited in key order with
\* the NaN group last, and a later group with the same str(sociedad)
\* replaces an earlier one.
UltimoGrupo(valores, k) ==
    IF \E v \in valores : IsNa(v) /\ AsStr(v) = k
    THEN NaN
    ELSE CHOOSE v \in valores : AsStr(v) = k

DictPorSociedad(base, col_sociedad, valores) ==
    IF valores = {}
    THEN Raise("ValueError",
           "No se generaron archivos por sociedad: no hay grupos con filas válidas.")
    ELSE Return([k \in {AsStr(v) : v \in valores} |->
                    SubGrupo(base, col_sociedad, UltimoGrupo(valores, k))])

base_a_dict_por_sociedad(base, col_sociedad) ==
    DictPorSociedad(base, col_sociedad, ValoresSociedad(base, col_sociedad))

(***************************************************************************)
(* The feed sections of the script                                         *)
(***************************************************************************)

Feeds == {"saesa", "innova", "parauco"}

Modos == {"Unificado (1 Excel)", "Por sociedad (ZIP)"}

DfVacio == [index |-> <<>>, columns |-> <<>>, data |-> <<>>]

\* What a section has shown: nothing, a download of one Excel file (the
\* frame written to it), a download of a ZIP (the frames by entity), or the
\* message of st.error.
Ninguno == [tipo |-> "ninguno", base |-> DfVacio, dict |-> <<>>, exc |-> NoExc]

Descarga(tipo, base, dict) == [tipo |-> tipo, base |-> base, dict |-> dict, exc |-> NoExc]

Error(exc) == [tipo |-> "error", base |-> DfVacio, dict |-> <<>>, exc |-> exc]

construir_base(f, df) ==
    CASE f = "saesa" -> construir_base_saesa(df)
      [] f = "innova" -> construir_base_innova(df)
      [] OTHER -> construir_base_parauco(df)

\* The ZIP branch: the frames by entity, packed.
DescargaZip(base, d) ==
    IF ~d.ok THEN d ELSE Return(Descarga("zip", base, d.valor))

\* The try block after the base is built: one Excel file or the ZIP.
TrasConstruir(b, m) ==
    IF ~b.ok THEN b
    ELSE IF m = "Unificado (1 Excel)"
         THEN Return(Descarga("excel", b.valor, <<>>))
         ELSE DescargaZip(b.valor, base_a_dict_por_sociedad(b.valor, "Sociedad"))

\* The try block after pd.read_excel.
TrasLeer(f, leido, m) ==
    IF ~leido.ok THEN leido ELSE TrasConstruir(construir_base(f, leido.valor), m)

\* The body of the try block of a section.
Procesar(f, arch, m) == TrasLeer(f, read_excel(arch), m)

\* Exception classes the pipelines and the Excel reader raise; all derive
\* from Exception.
ClasesException == {"ValueError", "BadZipFile"}

\* except ValueError as e
ExceptValueError(exc) == exc.clase = "ValueError"

\* except Exception as e
ExceptException(exc) == exc.clase \in ClasesException

\* One section: skipped without a file; otherwise the try block runs and a
\* caught exception becomes the section's st.error.  An exception that is
\* not caught ends the script run.
Seccion(f, siguiente) ==
    /\ IF ~archivo[f].presente
       THEN pc' = siguiente /\ UNCHANGED resultado
       ELSE \E r \in {Procesar(f, archivo[f], modo[f])} :
                IF r.ok
                THEN /\ resultado' = [resultado EXCEPT ![f] = r.valor]
                     /\ pc' = siguiente
                ELSE IF ExceptException(r.exc)
                THEN /\ resultado' = [resultado EXCEPT ![f] = Error(r.exc)]
                     /\ pc' = siguiente
                ELSE /\ pc' = "abortado"
                     /\ UNCHANGED resultado
    /\ UNCHANGED <<archivo, modo, entrada, salida>>

SeccionSaesa == pc = "saesa" /\ Seccion("saesa", "innova")

SeccionInnova == pc = "innova" /\ Seccion("innova", "parauco")

SeccionParauco == pc = "parauco" /\ Seccion("parauco", "fin")

(***************************************************************************)
(* Uploaded files                                                          *)
(***************************************************************************)

MaxRows == 2

SinArchivo == [presente |-> FALSE, legible |-> FALSE, columnas |-> <<>>, filas |-> <<>>]

Corrupto == [presente |-> TRUE, legible |-> FALSE, columnas |-> <<>>, filas |-> <<>>]

Libro(columnas, filas) ==
    [presente |-> TRUE, legible |-> TRUE, columnas |-> columnas, filas |-> filas]

\* Sequences of at most n elements of S.
SeqHasta(S, n) == UNION {[1..k -> S] : k \in 0..n}

EncabezadoNombrado ==
    <<"Acreedor", "Clase de documento", "Referencia", "Importe en moneda local",
      "Vencimiento neto", "Sociedad">>

FilaNombrada(acreedor, clase, referencia, importe, vencimiento, sociedad) ==
    <<acreedor, clase, referencia, importe, vencimiento, sociedad>>

AcreedorBase == Txt(<<"7", "6", ".", "9", "3", "9", ".", "5", "4", "1", "-", "5">>)
ClaseBase == Txt(<<"Z", "V">>)
ReferenciaBase == Flotante(123456)
ImporteBase == Txt(<<"1", ".", "2", "3", "4", ".", "5", "6", "7">>)
VencimientoBase == Txt(<<"2", "0", "2", "4", "-", "0", "3", "-", "1", "5">>)

\* Rows of a SAESA export: the end-to-end example row, and the same row with
\* the issuer and the document class, the reference, the entity letter, or
\* the amount and the date changed.
FilasSaesa ==
    {FilaNombrada(a, c, ReferenciaBase, ImporteBase, VencimientoBase, Txt(<<"D">>)) :
        a \in {AcreedorBase}, c \in {ClaseBase, Txt(<<"F", "Ñ">>), Txt(<<"F", "O">>),
                Txt(<<"X", "Y", "Z">>)}}
    \cup
    {FilaNombrada(a, ClaseBase, ReferenciaBase, ImporteBase, VencimientoBase, Txt(<<"D">>)) :
        a \in {Txt(<<"6", "0", "5", "0", "3", "0", "0", "0", "-", "9">>), Txt(<<" ">>), NaN}}
    \cup
    {FilaNombrada(AcreedorBase, ClaseBase, r, ImporteBase, VencimientoBase, Txt(<<"D">>)) :
        r \in {NaN, Txt(<<" ">>), Txt(<<"N", "a", "N">>), Txt(<<"1", "2", "3", "-", "4", "5",
                "6">>), Txt(<<"1", "2", ".", "3", "-", "4">>), Txt(<<".", "0">>)}}
    \cup
    {FilaNombrada(AcreedorBase, ClaseBase, ReferenciaBase, ImporteBase, VencimientoBase, s) :
        s \in {Txt(<<" ", "e", " ">>), Txt(<<"X">>)}}
    \cup
    {FilaNombrada(AcreedorBase, ClaseBase, ReferenciaBase, i, v, Txt(<<"D">>)) :
        i \in {Txt(<<"-", "5", "0", "0">>)}, v \in {Txt(<<"x">>)}}

\* The INNOVA export with the same rows: entity letters D and P exchanged.
FilaInnova(fila) ==
    [fila EXCEPT ![6] = IF @ = Txt(<<"D">>) THEN Txt(<<"P">>)
                        ELSE IF @ = Txt(<<"P">>) THEN Txt(<<"D">>) ELSE @]

\* A header and its rows without the column at position j.
SinColumna(seq, j) == SubSeq(seq, 1, j - 1) \o SubSeq(seq, j + 1, Len(seq))

EncabezadoParauco == <<"A", "B", "C", "D", "E", "F", "G", "H", "I", "J", "K", "L">>

FilaParauco(c, d, e, g, k, l) ==
    <<Txt(<<"A", "0">>), Txt(<<"B", "1">>), c, d, e, Txt(<<"F", "5">>), g, Txt(<<"H", "7">>),
            Txt(<<"I", "8">>),
      Txt(<<"J", "9">>), k, l>>

RutSociedadBase == Txt(<<" ", "7", "6", ".", "0", "7", "3", ".", "1", "6", "4", " ", "-", " ",
        "1", " ">>)
NombreSociedadBase == Txt(<<"P", "a", "r", "q", "u", "e", " ", "A", "r", "a", "u", "c", "o",
        " ", "S", ".", "A", ".">>)

\* Rows of a PARQUE ARAUCO export: an example row, and the same row with the
\* entity name, the entity RUT, the folio, the issuer, or the amount and the
\* date changed.
FilasParauco ==
    {FilaParauco(ImporteBase, ReferenciaBase, VencimientoBase, AcreedorBase,
                 RutSociedadBase, l) :
        l \in {NombreSociedadBase, Txt(<<" ", "P", "l", "a", "z", "a", " ", "E", "s", "t", "a",
                "c", "i", "ó", "n", " ", "S", ".", "A", ".", " ">>),
               Txt(<<"p", "a", "r", "q", "u", "e", " ", "a", "r", "a", "u", "c", "o", " ", "s",
                       ".", "a", ".">>), NaN}}
    \cup
    {FilaParauco(ImporteBase, ReferenciaBase, VencimientoBase, AcreedorBase, k,
                 NombreSociedadBase) :
        k \in {Txt(<<"7", "7", "2", "2", "7", "5", "6", "5", "-", "k">>), NaN}}
    \cup
    {FilaParauco(ImporteBase, d, VencimientoBase, AcreedorBase, RutSociedadBase,
                 NombreSociedadBase) :
        d \in {NaN, Txt(<<" ">>), Txt(<<"1", "2", "3", "-", "4", "5", "6">>), Txt(<<"1", ".",
                "0", ".", "0">>)}}
    \cup
    {FilaParauco(ImporteBase, ReferenciaBase, VencimientoBase, g, RutSociedadBase,
                 NombreSociedadBase) :
        g \in {NaN, Txt(<<" ">>)}}
    \cup
    {FilaParauco(Txt(<<"-", "5", "0", "0">>), ReferenciaBase, Txt(<<"x">>), AcreedorBase,
            RutSociedadBase,
                 NombreSociedadBase)}

(***************************************************************************)
(* The script run                                                          *)
(***************************************************************************)

SinNormalizador == /\ entrada = <<>>
                   /\ salida = <<>>

\* The same export uploaded to the SAESA and the INNOVA sections.
InitNombradas ==
    \E filas \in SeqHasta(FilasSaesa, MaxRows), m \in Modos :
        /\ archivo = [f \in Feeds |->
                        CASE f = "saesa" -> Libro(EncabezadoNombrado, filas)
                          [] f = "innova" ->
                                Libro(EncabezadoNombrado,
                                      [i \in 1..Len(filas) |-> FilaInnova(filas[i])])
                          [] OTHER -> SinArchivo]
        /\ modo = [f \in Feeds |-> m]

\* An export that lacks one of the required columns.
InitSinColumna ==
    \E filas \in SeqHasta(FilasSaesa, 1), j \in 1..Len(EncabezadoNombrado), m \in Modos :
        LET libro == Libro(SinColumna(EncabezadoNombrado, j),
                           [i \in 1..Len(filas) |-> SinColumna(filas[i], j)])
        IN  /\ archivo = [f \in Feeds |-> IF f = "parauco" THEN SinArchivo ELSE libro]
            /\ modo = [f \in Feeds |-> m]

\* A PARQUE ARAUCO export, with all its columns or cut after column J.
InitParauco ==
    \E filas \in SeqHasta(FilasParauco, MaxRows), m \in Modos :
        /\ archivo = [f \in Feeds |->
                        IF f = "parauco" THEN Libro(EncabezadoParauco, filas)
                        ELSE SinArchivo]
        /\ modo = [f \in Feeds |-> m]

InitParaucoCorto ==
    \E filas \in SeqHasta(FilasParauco, 1), m \in Modos :
        /\ archivo = [f \in Feeds |->
                        IF f = "parauco"
                        THEN Libro(SubSeq(EncabezadoParauco, 1, 10),
                                   [i \in 1..Len(filas) |-> SubSeq(filas[i], 1, 10)])
                        ELSE SinArchivo]
        /\ modo = [f \in Feeds |-> m]

FilaSaesaBase ==
    FilaNombrada(AcreedorBase, ClaseBase, ReferenciaBase, ImporteBase, VencimientoBase,
                 Txt(<<"D">>))

FilaSaesaSinReferencia ==
    FilaNombrada(AcreedorBase, ClaseBase, NaN, ImporteBase, VencimientoBase, Txt(<<"D">>))

FilaParaucoBase ==
    FilaParauco(ImporteBase, ReferenciaBase, VencimientoBase, AcreedorBase,
                RutSociedadBase, NombreSociedadBase)

\* Any combination of no upload, an unreadable file, a good export and a bad
\* export in the three sections, each with its own output mode.
ArchivosDe(f) ==
    {SinArchivo, Corrupto}
    \cup
    CASE f = "saesa" ->
            { Libro(EncabezadoNombrado, <<FilaSaesaBase>>),
              Libro(EncabezadoNombrado, <<FilaSaesaSinReferencia>>) }
      [] f = "innova" ->
            { Libro(EncabezadoNombrado, <<FilaInnova(FilaSaesaBase)>>),
              Libro(EncabezadoNombrado, <<FilaSaesaBase>>) }
      [] OTHER ->
            { Libro(EncabezadoParauco, <<FilaParaucoBase>>),
              Libro(SubSeq(EncabezadoParauco, 1, 10), <<SubSeq(FilaParaucoBase, 1, 10)>>) }

InitCombinadas ==
    \E a \in [Feeds -> UNION {ArchivosDe(f) : f \in Feeds}], m \in [Feeds -> Modos] :
        /\ \A f \in Feeds : a[f] \in ArchivosDe(f)
        /\ archivo = a
        /\ modo = m

Init ==
    /\ \/ InitNombradas
       \/ InitSinColumna
       \/ InitParauco
       \/ InitParaucoCorto
       \/ InitCombinadas
    /\ pc = "saesa"
    /\ resultado = [f \in Feeds |-> Ninguno]
    /\ SinNormalizador

Next == SeccionSaesa \/ SeccionInnova \/ SeccionParauco

Spec == Init /\ [][Next]_vars

(***************************************************************************)
(* The field normalizers on their own                                      *)
(***************************************************************************)

MaxFolioLen == 5

MaxRutLen == 3

AlfabetoFolio == {"1", "0", ".", " "}

AlfabetoRut == {"7", "k", "K", ".", " ", "\t"}

SinScript ==
    /\ archivo = [f \in Feeds |-> SinArchivo]
    /\ modo = [f \in Feeds |-> "Unificado (1 Excel)"]
    /\ pc = "fin"
    /\ resultado = [f \in Feeds |-> Ninguno]

InitFolio ==
    /\ entrada \in SeqHasta(AlfabetoFolio, MaxFolioLen)
    /\ salida = <<>>
    /\ SinScript

\* limpiar_folio_series applied to the previous result (first to the input).
AplicarLimpiarFolio ==
    /\ Len(salida) < 2
    /\ LET x == IF salida = <<>> THEN Txt(entrada) ELSE salida[Len(salida)]
       IN  salida' = Append(salida, limpiar_folio_series(<<x>>)[1])
    /\ UNCHANGED <<archivo, modo, pc, resultado, entrada>>

SpecFolio == InitFolio /\ [][AplicarLimpiarFolio]_vars

InitRut ==
    /\ entrada \in SeqHasta(AlfabetoRut, MaxRutLen)
    /\ salida = <<>>
    /\ SinScript

AplicarNormalizarRut ==
    /\ salida = <<>>
    /\ salida' = <<normalizar_rut(Txt(entrada))>>
    /\ UNCHANGED <<archivo, modo, pc, resultado, entrada>>

SpecRut == InitRut /\ [][AplicarNormalizarRut]_vars

(***************************************************************************)
(* The per-entity assembler on its own                                     *)
(***************************************************************************)

MaxFilasGrupo == 3

\* Canonical rows of two entities, told apart by their folio.
FilasCanonicas ==
    {[Sociedad |-> Txt(s), Folio |-> Txt(fo)] :
        s \in {<<"7", "6", "5", "1", "9", "7", "4", "7", "-", "3">>, <<"8", "8", "2", "7", "2",
                "6", "0", "0", "-", "2">>}, fo \in {<<"1">>, <<"2">>}}

\* The frame a pipeline returns for these rows.
BaseDe(filas) ==
    [ index |-> [i \in 1..Len(filas) |-> i - 1],
      columns |-> ColumnasBase,
      data |-> [c \in {ColumnasBase[j] : j \in 1..Len(ColumnasBase)} |->
                  [i \in 1..Len(filas) |->
                      CASE c = "Sociedad" -> filas[i].Sociedad
                        [] c = "Folio" -> filas[i].Folio
                        [] c = "Rut emisor" -> AcreedorBase
                        [] c = "Tipo de Documento" -> Txt(<<"3", "3">>)
                        [] c = "Monto a pagar" -> Entero(500)
                        [] OTHER -> Txt(<<"1", "5", "-", "0", "3", "-", "2", "0", "2", "4">>)]] ]

InitAgrupar ==
    /\ \E filas \in SeqHasta(FilasCanonicas, MaxFilasGrupo) : entrada = BaseDe(filas)
    /\ salida = <<>>
    /\ SinScript

AplicarBaseADict ==
    /\ salida = <<>>
    /\ salida' = <<base_a_dict_por_sociedad(entrada, "Sociedad")>>
    /\ UNCHANGED <<archivo, modo, pc, resultado, entrada>>

SpecAgrupar == InitAgrupar /\ [][AplicarBaseADict]_vars

(***************************************************************************)
(* Properties                                                              *)
(***************************************************************************)

\* Section f of the script run has been executed.
Ejecutada(f) ==
    CASE f = "saesa" -> pc \in {"innova", "parauco", "fin"}
      [] f = "innova" -> pc \in {"parauco", "fin"}
      [] OTHER -> pc = "fin"

\* Section f offered a download.
Ofrecida(f) == resultado[f].tipo \in {"excel", "zip"}

\* The rows of the table section f offered for download.
Emitidas(f) == IF Ofrecida(f) THEN Filas(resultado[f].base) ELSE {}

\* The cell of row i (from 1) of the file of section f under header col.
Celda(f, i, col) ==
    archivo[f].filas[i][CHOOSE j \in 1..Len(archivo[f].columnas) :
                           archivo[f].columnas[j] = col]

\* The source cell of an emitted row.
Fuente(f, e, col) == Celda(f, e.idx + 1, col)

\* A cell that is null, empty or blank.
Vacia(c) == IsNa(c) \/ Strip(AsStr(c)) = <<>>

ColumnaEmisor(f) == IF f = "parauco" THEN "G" ELSE "Acreedor"

ColumnaFolio(f) == IF f = "parauco" THEN "D" ELSE "Referencia"

Nombradas == {"saesa", "innova"}

TablaDe(f) == IF f = "saesa" THEN SAESA_SOCIEDAD_A_RUT ELSE INNOVA_SOCIEDAD_A_RUT

\* C1: every row of a table returned by one of the three pipelines has a
\* non-empty "Rut emisor" and a non-empty "Folio", and comes from a source row
\* whose issuer cell and folio cell are not empty, blank or null.
C1_EmisorYFolioNoVacios ==
    \A f \in Feeds : \A e \in Emitidas(f) :
        /\ ~Vacia(e.v["Rut emisor"])
        /\ ~Vacia(e.v["Folio"])
        /\ ~Vacia(Fuente(f, e, ColumnaEmisor(f)))
        /\ ~Vacia(Fuente(f, e, ColumnaFolio(f)))

\* C2: cleaning a folio twice gives the same as cleaning it once, and an
\* input ending in ".0" followed by any number of periods loses exactly that
\* one ".0" (and the periods after it).
C2_LimpiezaIdempotente ==
    /\ Len(salida) = 2 => salida[2] = salida[1]
    /\ (Len(salida) >= 1 /\ EndsWith(RStripChars(entrada, {"."}), <<".", "0">>))
          => salida[1] =
                Txt(Strip(SubSeq(entrada, 1, Len(RStripChars(entrada, {"."})) - 2)))

\* The text without periods and whitespace of any kind, in upper case.
Esqueleto(s) == Upper(SelectSeq(s, LAMBDA ch : ch # "." /\ ch \notin Whitespace))

\* C3: two identifiers that differ only in periods, whitespace or letter case
\* are normalized to the same string.
C3_MismoRutNormalizado ==
    Len(salida) = 1 =>
        \A y \in SeqHasta(AlfabetoRut, MaxRutLen) :
            Esqueleto(y) = Esqueleto(entrada) => normalizar_rut(Txt(y)) = salida[1]

\* C4: in SAESA and INNOVA the document type of an emitted row follows the
\* decision table on the raw document code and the issuer of the same row.
C4_TipoSegunTabla ==
    \A f \in Nombradas : \A e \in Emitidas(f) :
        LET codigo == AsStr(Fuente(f, e, "Clase de documento"))
            rut == AsStr(e.v["Rut emisor"])
            tipo == e.v["Tipo de Documento"]
        IN  /\ codigo = <<"F", "Ñ">> => tipo = Txt(<<"3", "3">>)
            /\ codigo = <<"F", "O">> => tipo = Txt(<<"3", "4">>)
            /\ (codigo = <<"Z", "V">> /\ rut \in {<<"6", "0", "5", "0", "3", "0", "0", "0",
                    "-", "9">>, <<"7", "6", "5", "1", "6", "9", "9", "9", "-", "2">>, <<"9",
                            "2", "9", "7", "6", "1", "2", "-", "2">>})
                  => tipo = Txt(<<"3", "4">>)
            /\ (codigo = <<"Z", "V">> /\ rut \notin {<<"6", "0", "5", "0", "3", "0", "0", "0",
                    "-", "9">>, <<"7", "6", "5", "1", "6", "9", "9", "9", "-", "2">>, <<"9",
                            "2", "9", "7", "6", "1", "2", "-", "2">>})
                  => tipo = Txt(<<"3", "3">>)
            /\ codigo \notin {<<"F", "Ñ">>, <<"F", "O">>, <<"Z", "V">>} => tipo = Txt(codigo)

\* A "ZV" row of a special issuer was emitted as "34" and a "ZV" row of another
\* issuer as "33".
C4_Testigo ==
    /\ \E e \in Emitidas("saesa") :
          /\ AsStr(Fuente("saesa", e, "Clase de documento")) = <<"Z", "V">>
          /\ e.v["Rut emisor"] = Txt(<<"6", "0", "5", "0", "3", "0", "0", "0", "-", "9">>)
          /\ e.v["Tipo de Documento"] = Txt(<<"3", "4">>)
    /\ \E e \in Emitidas("saesa") :
          /\ AsStr(Fuente("saesa", e, "Clase de documento")) = <<"Z", "V">>
          /\ e.v["Tipo de Documento"] = Txt(<<"3", "3">>)

\* The reference the named-column pipeline works on: INNOVA cuts it at its
\* first period.
RefDe(f, i) ==
    IF f = "innova"
    THEN Txt(SplitDotFirst(AsStr(Celda(f, i, "Referencia"))))
    ELSE Celda(f, i, "Referencia")

\* The checkpoints of the named-column pipeline on source row i.
PasaReferencia(f, i) ==
    /\ ~IsNa(RefDe(f, i))
    /\ Strip(AsStr(RefDe(f, i))) # <<>>
    /\ Lower(Strip(AsStr(RefDe(f, i)))) # <<"n", "a", "n">>

PasaGuion(f, i) == ~Contains(AsStr(RefDe(f, i)), "-")

PasaCampos(f, i) ==
    /\ Strip(AsStr(Celda(f, i, "Acreedor"))) # <<>>
    /\ limpiar_folio(AsStr(RefDe(f, i))) # <<>>

LetraDe(f, i) == Upper(Strip(AsStr(Celda(f, i, "Sociedad"))))

PasaFiltrosPrevios(f, i) == PasaReferencia(f, i) /\ PasaGuion(f, i) /\ PasaCampos(f, i)

ColumnasCompletas(f) ==
    \A c \in REQ_COLS_BASE : \E j \in 1..Len(archivo[f].columnas) : archivo[f].columnas[j] = c

MensajeMapping(f) ==
    IF f = "saesa"
    THEN "SAESA: no quedaron filas válidas luego de aplicar el mapping de sociedades."
    ELSE "INNOVA: no quedaron filas válidas (solo se acepta Sociedad='P')."

\* C5: in SAESA and INNOVA the entity of every emitted row is the table's
\* value for the row's trimmed, upper-cased letter, and a row that passed the
\* earlier filters is emitted exactly when its letter is a key of the table.
C5_SociedadDeLaTabla ==
    \A f \in Nombradas :
        /\ \A e \in Emitidas(f) :
              /\ LetraDe(f, e.idx + 1) \in DOMAIN TablaDe(f)
              /\ e.v["Sociedad"] = Txt(TablaDe(f)[LetraDe(f, e.idx + 1)])
              /\ PasaFiltrosPrevios(f, e.idx + 1)
        /\ (Ejecutada(f) /\ archivo[f].legible /\ ColumnasCompletas(f)) =>
              \A i \in 1..Len(archivo[f].filas) :
                  (PasaFiltrosPrevios(f, i) /\ LetraDe(f, i) \in DOMAIN TablaDe(f))
                      => \E e \in Emitidas(f) : e.idx = i - 1

\* A table of which one row was emitted and another, with a letter that is
\* no key, was dropped although it passed the earlier filters.
C5_Testigo ==
    /\ \E e \in Emitidas("saesa") : e.v["Sociedad"] = Txt(<<"8", "8", "2", "7", "2", "6", "0",
            "0", "-", "2">>)
    /\ \E i \in 1..Len(archivo["saesa"].filas) :
          /\ PasaFiltrosPrevios("saesa", i)
          /\ LetraDe("saesa", i) = <<"X">>
          /\ \A e \in Emitidas("saesa") : e.idx # i - 1

\* Position of label x in the sequence of labels.
PosEn(seq, x) == CHOOSE p \in 1..Len(seq) : seq[p] = x

\* C6: the per-entity assembly puts every row of the table in exactly one
\* group, the one keyed by its entity; the rows of a group keep the order of
\* the table and their cells, without the entity column; no group is empty;
\* and for a table without rows, hence without groups, the call fails.
C6_GruposPorSociedad ==
    Len(salida) = 1 =>
        IF Len(entrada.index) = 0
        THEN /\ ~salida[1].ok
             /\ salida[1].exc.mensaje =
                   "No se generaron archivos por sociedad: no hay grupos con filas válidas."
        ELSE /\ salida[1].ok
             /\ DOMAIN salida[1].valor # {}
             /\ \A i \in 1..Len(entrada.index) :
                   /\ AsStr(entrada.data["Sociedad"][i]) \in DOMAIN salida[1].valor
                   /\ \A k \in DOMAIN salida[1].valor :
                         Cardinality({p \in 1..Len(salida[1].valor[k].index) :
                                         salida[1].valor[k].index[p] = entrada.index[i]})
                            = IF k = AsStr(entrada.data["Sociedad"][i]) THEN 1 ELSE 0
             /\ \A k \in DOMAIN salida[1].valor :
                   LET g == salida[1].valor[k]
                   IN  /\ Len(g.index) > 0
                       /\ "Sociedad" \notin DOMAIN g.data
                       /\ \A p \in 1..Len(g.columns) : g.columns[p] # "Sociedad"
                       /\ \A p, q \in 1..Len(g.index) :
                             p < q => PosEn(entrada.index, g.index[p])
                                         < PosEn(entrada.index, g.index[q])
                       /\ \A p \in 1..Len(g.index) : \A c \in DOMAIN g.data :
                             g.data[c][p] =
                                entrada.data[c][PosEn(entrada.index, g.index[p])]

\* Rows of entities A, A, B in that order: group A holds the first two rows
\* in their order, group B the third.
C6_Testigo ==
    /\ Len(salida) = 1
    /\ entrada.data["Sociedad"] =
          <<Txt(<<"7", "6", "5", "1", "9", "7", "4", "7", "-", "3">>), Txt(<<"7", "6", "5",
                  "1", "9", "7", "4", "7", "-", "3">>), Txt(<<"8", "8", "2", "7", "2", "6",
                          "0", "0", "-", "2">>)>>
    /\ entrada.data["Folio"] = <<Txt(<<"2">>), Txt(<<"1">>), Txt(<<"1">>)>>
    /\ salida[1].valor[<<"7", "6", "5", "1", "9", "7", "4", "7", "-", "3">>].index = <<0, 1>>
    /\ salida[1].valor[<<"7", "6", "5", "1", "9", "7", "4", "7", "-",
            "3">>].data["Folio"] = <<Txt(<<"2">>), Txt(<<"1">>)>>
    /\ salida[1].valor[<<"8", "8", "2", "7", "2", "6", "0", "0", "-", "2">>].index = <<2>>

\* What section f shows when it is the only one with an upload.
Sola(f) ==
    IF ~archivo[f].presente THEN Ninguno
    ELSE LET r == Procesar(f, archivo[f], modo[f])
         IN  IF r.ok THEN r.valor ELSE Error(r.exc)

\* C7: the script run never stops at a failing section, and every section
\* that was executed shows what it would show on its own: its download, or
\* its own error message.
C7_SeccionesIndependientes ==
    /\ pc # "abortado"
    /\ \A f \in Feeds :
          /\ Ejecutada(f) => resultado[f] = Sola(f)
          /\ (Ejecutada(f) /\ archivo[f].presente) => resultado[f].tipo # "ninguno"

\* The run ended with SAESA failing to read, INNOVA failing in its pipeline
\* and PARQUE ARAUCO offering its download.
C7_Testigo ==
    /\ pc = "fin"
    /\ resultado["saesa"].tipo = "error"
    /\ resultado["saesa"].exc.clase = "BadZipFile"
    /\ resultado["innova"].tipo = "error"
    /\ resultado["innova"].exc.clase = "ValueError"
    /\ Ofrecida("parauco")

\* The source rows of section f that pass the checkpoints up to each one.
TrasReferencia(f) == {i \in 1..Len(archivo[f].filas) : PasaReferencia(f, i)}

TrasGuion(f) == {i \in TrasReferencia(f) : PasaGuion(f, i)}

TrasCampos(f) == {i \in TrasGuion(f) : PasaCampos(f, i)}

TrasMapping(f) == {i \in TrasCampos(f) : LetraDe(f, i) \in DOMAIN TablaDe(f)}

EsError(f, mensaje) ==
    resultado[f].tipo = "error" /\ resultado[f].exc.mensaje = mensaje

\* C8: the named-column pipeline fails with the message of the first
\* checkpoint (columns, reference, hyphen, empty fields, entity mapping) that
\* leaves no row, and otherwise returns the rows that pass them all, at least
\* one.
C8_PrimerControlVacio ==
    \A f \in Nombradas : (Ejecutada(f) /\ archivo[f].presente /\ archivo[f].legible) =>
        IF ~ColumnasCompletas(f)
        THEN IF f = "innova" /\ \A j \in 1..Len(archivo[f].columnas) :
                                    archivo[f].columnas[j] # "Referencia"
             THEN EsError(f, "El archivo de Innova debe contener la columna 'Referencia'.")
             ELSE EsError(f, "Faltan columnas requeridas")
        ELSE IF TrasReferencia(f) = {}
        THEN EsError(f,
               "No hay filas válidas: todas las filas tienen 'Referencia' vacía o inválida.")
        ELSE IF TrasGuion(f) = {}
        THEN EsError(f, "No hay filas válidas después de filtrar referencias con '-'.")
        ELSE IF TrasCampos(f) = {}
        THEN EsError(f, "No se generó salida: quedó vacío tras filtros/limpieza.")
        ELSE IF TrasMapping(f) = {}
        THEN EsError(f, MensajeMapping(f))
        ELSE /\ Ofrecida(f)
             /\ Len(resultado[f].base.index) >= 1
             /\ {e.idx + 1 : e \in Emitidas(f)} = TrasMapping(f)

\* A table of two rows, one with a blank reference and one with a hyphen in
\* the reference, failed at the hyphen checkpoint; so the blank one was
\* removed first.
C8_Testigo ==
    /\ Ejecutada("saesa")
    /\ Len(archivo["saesa"].filas) = 2
    /\ ColumnasCompletas("saesa")
    /\ Cardinality(TrasReferencia("saesa")) = 1
    /\ EsError("saesa", "No hay filas válidas después de filtrar referencias con '-'.")

\* C9: no emitted row of the three pipelines has a hyphen in its folio, and
\* none comes from a source row with a hyphen in its reference or folio cell.
C9_FolioSinGuion ==
    \A f \in Feeds : \A e \in Emitidas(f) :
        /\ ~Contains(AsStr(e.v["Folio"]), "-")
        /\ ~Contains(AsStr(Fuente(f, e, ColumnaFolio(f))), "-")

\* C10: a PARQUE ARAUCO table with fewer than 12 columns is rejected, and an
\* emitted row comes from a source row whose trimmed cell 11 is an allowed
\* entity name, with the entity the normalized cell 10 and the amount, folio,
\* date and issuer from the cells 2, 3, 4 and 6 of that source row.
C10_ParaucoPorPosicion ==
    /\ (Ejecutada("parauco") /\ archivo["parauco"].presente /\ archivo["parauco"].legible
           /\ Len(archivo["parauco"].columnas) < 12)
          => EsError("parauco",
               "El archivo no tiene suficientes columnas (se espera al menos hasta la columna L).")
    /\ \A e \in Emitidas("parauco") :
          LET fila == archivo["parauco"].filas[e.idx + 1]
          IN  /\ Strip(AsStr(fila[11 + 1])) \in SOCIEDADES_PARAUCO
              /\ e.v["Sociedad"] = Txt(normalizar_rut(fila[10 + 1]))
              /\ e.v["Monto a pagar"] = MontoEntero(<<fila[2 + 1]>>)[1]
              /\ e.v["Folio"] = Txt(limpiar_folio(AsStr(fila[3 + 1])))
              /\ e.v["Fecha a pagar"] = formatear_fecha_elem(fila[4 + 1])
              /\ e.v["Rut emisor"] = Txt(Strip(AsStr(fila[6 + 1])))
              /\ e.v["Tipo de Documento"] = Txt(<<"3", "3">>)

\* The second row of a table was emitted, with the entity of its cell 10,
\* while the first row, whose cell 11 is no allowed name, was not.
C10_Testigo ==
    /\ \E e \in Emitidas("parauco") :
          /\ e.idx = 1
          /\ e.v["Sociedad"] = Txt(<<"7", "7", "2", "2", "7", "5", "6", "5", "-", "K">>)
    /\ \A e \in Emitidas("parauco") : e.idx # 0
    /\ Len(archivo["parauco"].filas) = 2
====
